---- MODULE Spec2Model ----
(***************************************************************************)
(* A model of flask_activerecord.py: the ActiveRecord layer patched onto   *)
(* flask_sqlalchemy.Model.                                                 *)
(*                                                                         *)
(* The specifications share the variables below:                           *)
(*   SpecBatch  the generators find_in_batches / find_each over a query;   *)
(*   SpecWhere  _where_clause, _QueryHelper.where and find_by;             *)
(*   Spec       the record operations assign, update, save, delete,        *)
(*              create and destroy over one session and one table;         *)
(*   SpecAssign the same operations on one instance of a model, under      *)
(*              each of the __attribute_filters__ considered;              *)
(*   SpecQuery  count, where().count(), exists, find_by, take, first and   *)
(*              last over a table that create, delete and destroy change;  *)
(*   SpecJson   json_value;                                                *)
(*   SpecDict   to_dict on the instances of a model with hidden names;     *)
(*   SpecSelect select() and _select_options;                              *)
(*   SpecFail   the record operations over a session whose calls fail.     *)
(* Each specification keeps the variables of the others at their idle      *)
(* values.                                                                 *)
(*                                                                         *)
(* Python values: None is the empty sequence and an int n is <<n>> where a *)
(* parameter may be None; column values are small integers.                *)
(***************************************************************************)
EXTENDS Integers, Sequences, FiniteSets, TLC

VARIABLES
    rows,       \* SpecBatch: the rows of the query without OFFSET/LIMIT, in query order
    pep479,     \* the interpreter is Python 3.7 or later (it turns StopIteration raised in a generator into RuntimeError); Python 2.7 otherwise
    gen,        \* SpecBatch: the generator object returned by find_in_batches / find_each
    helper,     \* SpecWhere: the _QueryHelper and the outcome of the last call on it
    attribute_filters,  \* Spec: the class attribute __attribute_filters__
    st,         \* Spec: the state of each instance in the session
    mem,        \* Spec: the attributes each instance holds in memory
    db,         \* Spec: the committed rows of the table, by primary key
    marked,     \* Spec: the instances the session has marked for deletion
    pend,       \* Spec: the instances the session is to insert, in order
    nextId,     \* Spec: the primary key the next inserted row receives
    lastOp      \* Spec: the last operation called and its outcome

recordVars == <<attribute_filters, st, mem, db, marked, pend, nextId, lastOp>>

vars == <<rows, pep479, gen, helper, recordVars>>

------------------------------------------------------------------------------
(* Bounds of the model *)

\* the table holds at most MaxRows rows
MaxRows == 3
\* start and batch_size arguments range over None and -1..MaxArg
MaxArg == 2
\* filter values are built from the integers 0..MaxVal
MaxVal == 1
\* a list given as a filter has at most MaxList elements, a tuple one more
MaxList == 2
\* the program constructs at most MaxObjs instances of the model
MaxObjs == 2
\* a list, tuple or set handed to json_value has at most MaxElems elements
MaxElems == 2
\* select() is given at most MaxFields names
MaxFields == 3

Max(a, b) == IF a >= b THEN a ELSE b
Min(a, b) == IF a <= b THEN a ELSE b

------------------------------------------------------------------------------
(* Python's None and truth value, for an optional int *)

None == <<>>

OptInts == {None} \cup {<<n>> : n \in -1..MaxArg}

\* bool(x) for x None or an int
Truthy(x) == x # None /\ x[1] # 0

\* `a and b or c` of Python, each operand None or an int
AndOr(a, b, c) == IF Truthy(a) /\ Truthy(b) THEN b ELSE c

\* `a or b or c` of Python; c is truthy
OrOr(a, b, c) == IF Truthy(a) THEN a ELSE IF Truthy(b) THEN b ELSE c

------------------------------------------------------------------------------
(* The mapped class: its columns and relationships, lines 50-74 *)

\* _get_columns(model), for the model Todo of test_activerecord.py
Columns == {"id", "title", "text", "done", "pub_date"}

\* _get_primary_keys(model)
PrimaryKeys == {"id"}

\* _get_relations(model)
Relations == {"owner"}

------------------------------------------------------------------------------
(* _where_clause, flask_activerecord.py 202-253 *)

\* A Python value given as a filter: t is its type ("int", "list", "tuple" or
\* "set") and v its elements in order (the one element of an int; the elements
\* of a set ascending and without repetition).
PyInt(n) == [t |-> "int", v |-> <<n>>]

\* a str given as a filter
PyStr(x) == [t |-> "str", v |-> <<x>>]

\* the types of the simple values
SimpleTypes == {"int", "str"}

\* A condition the ORM builds on attribute key: op is "eq" (==), "in" (in_) or
\* "between"; args are the Python values handed to the operator.
Condition(key, op, args) == [key |-> key, op |-> op, args |-> args]

\* the elements of a list, each a simple value
Elements(value) == [i \in 1..Len(value.v) |-> PyInt(value.v[i])]

SeqMin(s) == CHOOSE x \in {s[i] : i \in 1..Len(s)} : \A i \in 1..Len(s) : x <= s[i]
SeqMax(s) == CHOOSE x \in {s[i] : i \in 1..Len(s)} : \A i \in 1..Len(s) : x >= s[i]

Raise(err) == [ok |-> FALSE, err |-> err]
Built(cond) == [ok |-> TRUE, cond |-> cond]

\* lines 216-224: the condition for a relationship key
RelationCondition(key, value) ==
    IF value.t # "list" THEN Condition(key, "eq", <<value>>)
    ELSE IF Len(value.v) = 1 THEN Condition(key, "eq", <<PyInt(value.v[1])>>)
    ELSE Condition(key, "in", Elements(value))

\* a slip: `len(value) > 2` for `len(value) != 2`; min() and max() of an
\* empty tuple raise ValueError themselves
ColumnConditionLongTuplesOnly(key, value) ==
    IF value.t = "tuple"
    THEN IF Len(value.v) > 2 \/ Len(value.v) = 0 THEN Raise("ValueError")
         ELSE Built(Condition(key, "between",
                              <<PyInt(SeqMin(value.v)), PyInt(SeqMax(value.v))>>))
    ELSE IF value.t # "list" THEN Built(Condition(key, "eq", <<value>>))
    ELSE IF value.v = <<>> THEN Raise("ValueError")
    ELSE IF Len(value.v) = 1 THEN Built(Condition(key, "eq", <<PyInt(value.v[1])>>))
    ELSE Built(Condition(key, "in", Elements(value)))

\* a slip: the tuple taken as (lower, upper) in the order given
ColumnConditionUnordered(key, value) ==
    IF value.t = "tuple"
    THEN IF Len(value.v) # 2 THEN Raise("ValueError")
         ELSE Built(Condition(key, "between",
                              <<PyInt(value.v[1]), PyInt(value.v[2])>>))
    ELSE IF value.t # "list" THEN Built(Condition(key, "eq", <<value>>))
    ELSE IF value.v = <<>> THEN Raise("ValueError")
    ELSE IF Len(value.v) = 1 THEN Built(Condition(key, "eq", <<PyInt(value.v[1])>>))
    ELSE Built(Condition(key, "in", Elements(value)))

\* lines 227-251: the condition for a column key, or the ValueError raised
ColumnCondition(key, value) ==
    IF value.t = "tuple"
    THEN IF Len(value.v) # 2 THEN Raise("ValueError")
         ELSE Built(Condition(key, "between",
                              <<PyInt(SeqMin(value.v)), PyInt(SeqMax(value.v))>>))
    ELSE IF value.t # "list" THEN Built(Condition(key, "eq", <<value>>))
    ELSE IF value.v = <<>> THEN Raise("ValueError")
    ELSE IF Len(value.v) = 1 THEN Built(Condition(key, "eq", <<PyInt(value.v[1])>>))
    ELSE Built(Condition(key, "in", Elements(value)))

RECURSIVE RelationLoop(_, _, _)
\* lines 215-224 over the relationship keys in iteration order
RelationLoop(keys, filters, conditions) ==
    IF keys = <<>> THEN conditions
    ELSE RelationLoop(Tail(keys), filters,
            Append(conditions, RelationCondition(Head(keys), filters[Head(keys)])))

RECURSIVE ColumnLoop(_, _, _)
\* lines 226-251 over the column keys in iteration order
ColumnLoop(keys, filters, conditions) ==
    IF keys = <<>> THEN [ok |-> TRUE, conditions |-> conditions]
    ELSE LET r == ColumnCondition(Head(keys), filters[Head(keys)])
         IN  IF ~r.ok THEN r
             ELSE ColumnLoop(Tail(keys), filters, Append(conditions, r.cond))

\* _where_clause(model, *criteria, **filters). order lists the keys of filters
\* in the order in which the sets of lines 215 and 226 are iterated.
WhereClause(criteria, filters, order) ==
    IF DOMAIN filters = {} THEN [ok |-> TRUE, conditions |-> criteria]
    ELSE ColumnLoop(SelectSeq(order, LAMBDA k : k \in Columns), filters,
            RelationLoop(SelectSeq(order, LAMBDA k : k \in Relations), filters,
                         criteria))

\* whether a row whose attribute has the value x satisfies condition c, as SQL
\* evaluates =, IN and BETWEEN; a parameter that is no simple value equals
\* no column value
Holds(c, x) ==
    CASE c.op = "eq" -> c.args[1].t \in SimpleTypes /\ x = c.args[1].v[1]
      [] c.op = "in" -> \E i \in 1..Len(c.args) :
                            c.args[i].t \in SimpleTypes /\ x = c.args[i].v[1]
      [] c.op = "between" -> c.args[1].v[1] <= x /\ x <= c.args[2].v[1]

\* A _QueryHelper and the outcome of the call that made it: called is the
\* method ("where", "find_by"), kw and criteria its arguments, filtersSet
\* whether self._filters was assigned (line 340), _filters its value, err the
\* error raised and queries the number of queries issued.
IdleHelper ==
    [called |-> "none", kw |-> <<>>, criteria |-> <<>>, filtersSet |-> FALSE,
     _filters |-> <<>>, err |-> "", queries |-> 0]

\* _QueryHelper(cls).where(*criteria, **filters), lines 330-341 and 591-593
HelperWhere(called, criteria, kw, order) ==
    LET r == WhereClause(criteria, kw, order)
        h == [IdleHelper EXCEPT !.called = called, !.kw = kw, !.criteria = criteria]
    IN  IF r.ok THEN [h EXCEPT !.filtersSet = TRUE, !._filters = r.conditions]
        ELSE [h EXCEPT !.err = r.err]

\* .order_by('id').first() on the helper where() returned, lines 305-307 and 577
HelperFirst(h) ==
    IF h.err # "" THEN h ELSE [h EXCEPT !.queries = @ + 1]

------------------------------------------------------------------------------
(* json_value, flask_activerecord.py 162-178 *)

\* A Python value handed to json_value is [t |-> its type, v |-> its content]:
\* the content of None is empty, that of a bool, int, float, str, date, time
\* or datetime is its one literal, that of a list, tuple or set is its
\* elements, each a value, and that of a dict is its items, each a pair of a
\* key and a value. An object is of type "model" when it has a callable
\* to_dict, with the dict that returns as content, of type "has_attr" when
\* its to_dict is no callable, and of type "other" otherwise.
PyVal(t, v) == [t |-> t, v |-> v]

\* value.isoformat() and str(value): the text is a function of the type and
\* the literal
IsoFormat(value) == <<"iso", value.t, value.v[1]>>
Str(value) == <<"str", value.t>>

RECURSIVE json_value(_)
\* lines 162-178
json_value(value) ==
    IF value.t \in {"none", "int", "float", "str", "bool"} THEN value
    ELSE IF value.t \in {"list", "tuple", "set"}
    THEN PyVal("list", [i \in DOMAIN value.v |-> json_value(value.v[i])])
    ELSE IF value.t = "dict"
    THEN PyVal("dict", [i \in DOMAIN value.v |->
                            <<value.v[i][1], json_value(value.v[i][2])>>])
    ELSE IF value.t \in {"datetime", "date", "time"}
    THEN PyVal("str", <<IsoFormat(value)>>)
    ELSE IF value.t = "model" THEN json_value(value.v[1])
    ELSE PyVal("str", <<Str(value)>>)

------------------------------------------------------------------------------
(* Instances, session and table: flask_activerecord.py 468-547 *)

Objs == 1..MaxObjs

\* the id of an instance that was never inserted (None)
NoId == 0

\* the values given for title and text
AttrVals == {"a", "b"}

\* Todo(title, text), test_activerecord.py 24-28
NewAttrs(title, text) ==
    [id |-> NoId, title |-> title, text |-> text, done |-> FALSE,
     pub_date |-> "utcnow"]

\* the attributes of an instance the program holds no more
NoAttrs == NewAttrs("", "")

\* The session, its instances and the table as one value. st[o] is "none"
\* (not constructed), "transient" (constructed, not in the session), "pending"
\* (added, to be inserted), "persistent" (its row is in the table) or
\* "detached" (its row was deleted).
World ==
    [st |-> st, mem |-> mem, db |-> db, marked |-> marked, pend |-> pend,
     nextId |-> nextId]

\* the outcome of a call: the world after it, the commits it issued, the
\* error it raised ("" for none) and the instance it returned (0 for none)
Outcome(w, commits, err, ret) ==
    [w |-> w, commits |-> commits, err |-> err, ret |-> ret]

\* session.add(o): a transient instance is to be inserted; an instance of
\* the session stays in it and is no longer marked for deletion
SessionAdd(w, o) ==
    IF w.st[o] = "transient"
    THEN [w EXCEPT !.st[o] = "pending", !.pend = Append(@, o)]
    ELSE [w EXCEPT !.marked = @ \ {o}]

\* session.delete(o) of a persistent instance
SessionDelete(w, o) == [w EXCEPT !.marked = @ \cup {o}]

RECURSIVE InsertPending(_)
\* the flush inserts the pending instances in the order they were added;
\* each receives the next primary key
InsertPending(w) ==
    IF w.pend = <<>> THEN w
    ELSE LET o == Head(w.pend)
         IN  InsertPending([w EXCEPT !.pend = Tail(@),
                                     !.mem[o].id = w.nextId,
                                     !.st[o] = "persistent",
                                     !.nextId = @ + 1])

\* session.commit(): the pending instances are inserted, the rows of the
\* persistent instances take their attributes, the rows of the marked
\* instances are deleted, and all of it is committed
SessionCommit(w) ==
    LET f    == InsertPending(w)
        live == {o \in Objs : f.st[o] = "persistent" /\ o \notin f.marked}
    IN  [f EXCEPT
            !.db = [pk \in {f.mem[o].id : o \in live} |->
                        f.mem[CHOOSE o \in live : f.mem[o].id = pk]],
            !.st = [o \in Objs |-> IF o \in f.marked THEN "detached" ELSE f.st[o]],
            !.mem = [o \in Objs |-> IF o \in f.marked THEN NoAttrs ELSE f.mem[o]],
            !.marked = {}]

\* self.__attribute_filters__.get(name, EMPTY)
Filter(name) == attribute_filters[name]

\* a variant of Assignable in which the accessible list overrides the
\* protected list
AssignableAccessibleWins(key, kwargs) ==
    /\ key \in DOMAIN kwargs
    /\ \/ key \in Filter("accessible")
       \/ Filter("accessible") = {} /\ key \notin Filter("protected")

\* line 479 and line 482: whether assign sets column key from kwargs
Assignable(key, kwargs) ==
    /\ key \notin Filter("protected")
    /\ key \in DOMAIN kwargs
    /\ Filter("accessible") = {} \/ key \in Filter("accessible")

\* a variant of assign that adds the instance to the session and commits
assignSaving(w, o, kwargs) ==
    Outcome(SessionCommit(SessionAdd(
                [w EXCEPT !.mem[o] =
                    [key \in Columns |->
                        IF Assignable(key, kwargs) THEN kwargs[key] ELSE @[key]]],
                o)),
            1, "", o)

\* lines 468-484: instance.assign(**kwargs)
assign(w, o, kwargs) ==
    Outcome([w EXCEPT !.mem[o] =
                [key \in Columns |->
                    IF Assignable(key, kwargs) THEN kwargs[key] ELSE @[key]]],
            0, "", o)

\* lines 491-499: instance.save(commit)
save(w, o, commit) ==
    LET added == SessionAdd(w, o)
    IN  IF commit THEN Outcome(SessionCommit(added), 1, "", o)
        ELSE Outcome(added, 0, "", o)

\* a variant of update that saves without committing
updateWithoutCommit(w, o, kwargs) == save(assign(w, o, kwargs).w, o, FALSE)

\* lines 486-489: instance.update(**kwargs)
update(w, o, kwargs) == save(assign(w, o, kwargs).w, o, TRUE)

\* lines 501-507: instance.delete(commit). session.delete raises
\* InvalidRequestError for an instance that is not persisted.
delete(w, o, commit) ==
    IF w.st[o] # "persistent" THEN Outcome(w, 0, "InvalidRequestError", 0)
    ELSE LET deleted == SessionDelete(w, o)
         IN  IF commit THEN Outcome(SessionCommit(deleted), 1, "", 0)
             ELSE Outcome(deleted, 0, "", 0)

\* the instance the program has not constructed yet
FreeObj(w) == CHOOSE o \in Objs : w.st[o] = "none" /\ \A p \in 1..o - 1 : w.st[p] # "none"

\* cls(title, text): a transient instance
construct(w, title, text) ==
    LET o == FreeObj(w)
    IN  Outcome([w EXCEPT !.st[o] = "transient", !.mem[o] = NewAttrs(title, text)],
                0, "", o)

\* lines 522-529: Model.create(**kwargs)
create(w, title, text) ==
    LET made == construct(w, title, text)
    IN  save(made.w, made.ret, TRUE)

\* lines 541-547: Model.find(id), the persistent instance with that key
find(w, id) == CHOOSE o \in Objs : w.st[o] = "persistent" /\ w.mem[o].id = id

RECURSIVE MarkAll(_, _)
\* lines 537-538: cls.find(pk).delete(False) for each pk in turn
MarkAll(w, ids) ==
    IF ids = <<>> THEN w
    ELSE MarkAll(delete(w, find(w, Head(ids)), FALSE).w, Tail(ids))

\* a variant of destroy that deletes the first id only
destroyFirstOnly(w, ids) ==
    Outcome(SessionCommit(MarkAll(w, <<Head(ids)>>)), 1, "", 0)

\* lines 531-539: Model.destroy(*ids), every id that of a persistent instance
destroy(w, ids) == Outcome(SessionCommit(MarkAll(w, ids)), 1, "", 0)

\* The rows a query of the session sees, by primary key: the session flushes
\* what it holds before it queries, lines 273-300
Visible(w) == SessionCommit(w).db

\* lines 312-317 and 569-572: Model.count()
count(w) == Cardinality(DOMAIN Visible(w))

\* line 358: the builtin basestring exists in Python 2 only; the module
\* neither defines nor imports the name
BasestringDefined == ~pep479

\* a new _QueryHelper, lines 261-271
NewHelper ==
    [_scalar |-> None, _filters |-> None, _order_by |-> None, _offset |-> None,
     _limit |-> None]

\* lines 353-364: helper.order_by(key) for a str key, "-id" or "id"; the
\* outcome is the helper or the error raised
order_by(h, key) ==
    IF ~BasestringDefined THEN [ok |-> FALSE, err |-> "NameError"]
    ELSE [ok |-> TRUE,
          h |-> [h EXCEPT !._order_by =
                    <<IF Head(key) = "-" THEN [fn |-> "desc", key |-> Tail(key)]
                      ELSE [fn |-> "asc", key |-> key]>>]]

\* lines 379-380: helper.limit(n)
limit(h, n) == [h EXCEPT !._limit = <<n>>]

\* a slip: the conditions joined with OR
MatchingAny(w, conditions) ==
    {pk \in DOMAIN Visible(w) :
        \E i \in DOMAIN conditions :
            Holds(conditions[i], Visible(w)[pk][conditions[i].key])}

\* the primary keys of the rows of the session that satisfy every condition
\* (line 287: query.filter(*self._filters), the conditions joined with AND)
Matching(w, conditions) ==
    {pk \in DOMAIN Visible(w) :
        \A i \in DOMAIN conditions :
            Holds(conditions[i], Visible(w)[pk][conditions[i].key])}

\* a set of primary keys as a sequence, ascending
Ascend(S) ==
    CHOOSE q \in [1..Cardinality(S) -> S] :
        \A i, j \in 1..Cardinality(S) : i < j => q[i] < q[j]

\* a sequence in reverse
Reverse(q) == [i \in 1..Len(q) |-> q[Len(q) + 1 - i]]

\* lines 273-300: the rows self._query.all() returns. Without ORDER BY the
\* table gives its rows by primary key; the orderings used are on id.
QueryAll(w, h) ==
    LET found == IF h._filters # None /\ h._filters[1] # <<>>
                 THEN Matching(w, h._filters[1])
                 ELSE DOMAIN Visible(w)
        sorted == IF h._order_by # None /\ h._order_by[1].fn = "desc"
                  THEN Reverse(Ascend(found)) ELSE Ascend(found)
        from == IF Truthy(h._offset) /\ h._offset[1] > 0 THEN h._offset[1] ELSE 0
        rest == SubSeq(sorted, from + 1, Len(sorted))
        taken == IF Truthy(h._limit) /\ h._limit[1] > 0
                 THEN SubSeq(rest, 1, Min(h._limit[1], Len(rest))) ELSE rest
    IN  [i \in 1..Len(taken) |-> Visible(w)[taken[i]]]

\* lines 305-307: self._query.first(), None or the first row
QueryFirst(w, h) ==
    IF QueryAll(w, h) = <<>> THEN None ELSE <<Head(QueryAll(w, h))>>

\* lines 312-317: helper.count(), the scalar of SELECT count(id)
QueryCount(w, h) == Len(QueryAll(w, [h EXCEPT !._order_by = None]))

\* the outcome of a query method: the value returned or the error raised
Returned(called, kw, n, result) ==
    [called |-> called, kw |-> kw, n |-> n, err |-> "", result |-> result]
Raised(called, kw, n, err) ==
    [called |-> called, kw |-> kw, n |-> n, err |-> err, result |-> None]

\* lines 330-341 and 591-593: Model.where(**filters), the helper or the error
where(kw, order) ==
    LET r == WhereClause(<<>>, kw, order)
    IN  IF r.ok THEN [ok |-> TRUE, h |-> [NewHelper EXCEPT !._filters = <<r.conditions>>]]
        ELSE r

\* lines 574-577: Model.find_by(**filters)
find_by(w, kw, order) ==
    LET h == where(kw, order)
        o == order_by(h.h, <<"id">>)
    IN  IF ~h.ok THEN Raised("find_by", kw, 0, h.err)
        ELSE IF ~o.ok THEN Raised("find_by", kw, 0, o.err)
        ELSE Returned("find_by", kw, 0, QueryFirst(w, o.h))

\* lines 312-317 and 591-593: Model.where(**filters).count()
where_count(w, kw, order) ==
    LET h == where(kw, order)
    IN  IF ~h.ok THEN Raised("where_count", kw, 0, h.err)
        ELSE Returned("where_count", kw, 0, QueryCount(w, h.h))

\* lines 323-325: Model.where(**filters).exists()
where_exists(w, kw, order) ==
    LET c == where_count(w, kw, order)
    IN  IF c.err # "" THEN Raised("exists", kw, 0, c.err)
        ELSE Returned("exists", kw, 0, c.result # 0)

\* lines 564-567: Model.take(n, reverse)
take(w, n, reverse) ==
    LET o == order_by(NewHelper, IF reverse THEN <<"-", "id">> ELSE <<"id">>)
        called == IF reverse THEN "take_reverse" ELSE "take"
    IN  IF ~o.ok THEN Raised(called, <<>>, n, o.err)
        ELSE Returned(called, <<>>, n, QueryAll(w, limit(o.h, n)))

\* lines 554-562: Model.first() and Model.last()
first_or_last(w, reverse) ==
    LET rs == take(w, 1, reverse)
        called == IF reverse THEN "last" ELSE "first"
    IN  IF rs.err # "" THEN Raised(called, <<>>, 0, rs.err)
        ELSE Returned(called, <<>>, 0,
                      IF rs.result # <<>> THEN <<rs.result[1]>> ELSE None)

\* getattr(model, k) for a column k of an instance with the attributes row
Attribute(row, k) ==
    CASE k = "id" -> IF row.id = NoId THEN PyVal("none", <<>>) ELSE PyInt(row.id)
      [] k \in {"title", "text"} -> PyStr(row[k])
      [] k = "done" -> PyVal("bool", <<row.done>>)
      [] k = "pub_date" -> PyVal("datetime", <<row.pub_date>>)

\* The names with a '.', as the pair k[:index], k[index + 1:] of lines
\* 118-119
Dotted ==
    [k \in {"owner.name", "bogus.x"} |->
        IF k = "owner.name" THEN <<"owner", "name">> ELSE <<"bogus", "x">>]

\* A field given to to_dict is a str, taken here as the names that commas
\* separate in it. joined is the str as one name: it is the name itself, or,
\* with a comma in it, a name that is no attribute and has no '.'.
Joined(field) == IF Len(field) = 1 THEN field[1] ELSE ","

\* lines 92-93: the names of *fields; a single field is split at its commas
FieldNames(fields) ==
    IF Len(fields) = 1 THEN {fields[1][j] : j \in DOMAIN fields[1]}
    ELSE {Joined(fields[i]) : i \in DOMAIN fields}

RECURSIVE RelatedMap(_, _)
\* lines 113-125: related_map after the loop over related_attr in the order
\* keys, or the KeyError of line 122
RelatedMap(keys, map) ==
    IF keys = <<>> THEN [ok |-> TRUE, map |-> map]
    ELSE LET k == Head(keys)
         IN  IF k \in DOMAIN Dotted
             THEN LET model == Dotted[k][1]
                      attr == Dotted[k][2]
                      got == IF model \in DOMAIN map THEN map[model] ELSE <<>>
                  IN  IF model \notin Relations /\ model \notin DOMAIN map
                      THEN [ok |-> FALSE, err |-> "KeyError"]
                      ELSE RelatedMap(Tail(keys),
                              [m \in DOMAIN map \cup {model} |->
                                  IF m = model THEN Append(got, attr) ELSE map[m]])
             ELSE IF k \in Relations
             THEN RelatedMap(Tail(keys),
                     [m \in DOMAIN map \cup {k} |-> IF m = k THEN <<>> ELSE map[m]])
             ELSE RelatedMap(Tail(keys), map)

\* a variant of ShownColumns that shows the hidden columns too
ShownColumnsAll(model_attr, hidden) == model_attr

\* lines 134-136: the columns of model_attr that are not skipped as hidden
ShownColumns(model_attr, hidden) == model_attr \ hidden

\* lines 77-159: _model_to_dict(model, *fields, _exclude=exclude) for one
\* instance with the attributes row. order is the order in which the set
\* related_attr is iterated. The value under a relationship is the dict of
\* the related instance for the fields of related_map.
model_to_dict(row, hidden, fields, exclude, order) ==
    LET names == FieldNames(fields)
        given == IF Columns \cap names = {} THEN Columns \cup names ELSE names
        related_attr == given \ Columns
        model_attr == given \ (exclude \cup related_attr)
        related == RelatedMap(order, <<>>)
        shown == ShownColumns(model_attr \cup PrimaryKeys, hidden)
    IN  IF ~related.ok THEN related
        ELSE IF model_attr = {} /\ DOMAIN related.map = {}
        THEN [ok |-> TRUE, dict |-> <<>>]
        ELSE [ok |-> TRUE,
              dict |-> [k \in shown \cup DOMAIN related.map |->
                          IF k \in shown THEN json_value(Attribute(row, k))
                          ELSE PyVal("related", related.map[k])]]

\* the names left of a call of to_dict that are no columns, which line 113
\* iterates
RelatedAttr(fields) ==
    (IF Columns \cap FieldNames(fields) = {} THEN Columns \cup FieldNames(fields)
     ELSE FieldNames(fields)) \ Columns

\* a variant of select_options that defers what was not requested, primary
\* keys too
select_options_as_requested(fields) ==
    LET requested == IF fields # <<>> THEN {fields[i] : i \in DOMAIN fields}
                     ELSE Columns
    IN  [defer |-> Columns \ requested, eagerload |-> Relations \cap requested]

\* lines 181-199: _select_options(model, *fields), the columns given to
\* defer() and the relationships given to eagerload()
select_options(fields) ==
    LET requested == IF fields # <<>>
                     THEN {fields[i] : i \in DOMAIN fields} \cup PrimaryKeys
                     ELSE Columns
    IN  [defer |-> Columns \ requested, eagerload |-> Relations \cap requested]

\* A failure of the database inside a call of the session: at is the call
\* that raises ("add", "delete" or "commit") and err the error it raises
NoFault == [at |-> "none", err |-> ""]
DbErrors == {"IntegrityError", "OperationalError"}
Faults == {[at |-> a, err |-> e] : a \in {"add", "delete", "commit"}, e \in DbErrors}

\* a variant of save_under that catches the error of the commit and returns
\* the instance
save_swallowing(w, o, commit, fault) ==
    IF fault.at = "add" THEN Outcome(w, 0, fault.err, 0)
    ELSE IF commit /\ fault.at = "commit" THEN Outcome(SessionAdd(w, o), 0, "", o)
    ELSE save(w, o, commit)

\* lines 491-499: save(commit) when the session fails as fault tells; no
\* statement of save catches an error
save_under(w, o, commit, fault) ==
    IF fault.at = "add" THEN Outcome(w, 0, fault.err, 0)
    ELSE IF commit /\ fault.at = "commit"
    THEN Outcome(SessionAdd(w, o), 0, fault.err, 0)
    ELSE save(w, o, commit)

\* lines 486-489: update(**kwargs) when the session fails
update_under(w, o, kwargs, fault) ==
    save_under(assign(w, o, kwargs).w, o, TRUE, fault)

\* lines 522-529: create(**kwargs) when the session fails
create_under(w, title, text, fault) ==
    LET made == construct(w, title, text)
    IN  save_under(made.w, made.ret, TRUE, fault)

\* lines 501-507: delete(commit) when the session fails
delete_under(w, o, commit, fault) ==
    IF w.st[o] # "persistent" THEN delete(w, o, commit)
    ELSE IF fault.at = "delete" THEN Outcome(w, 0, fault.err, 0)
    ELSE IF commit /\ fault.at = "commit"
    THEN Outcome(SessionDelete(w, o), 0, fault.err, 0)
    ELSE delete(w, o, commit)

\* lines 531-539: destroy(*ids) when the session fails: in the first delete
\* of the loop, or in the commit after it
destroy_under(w, ids, fault) ==
    IF fault.at = "delete" THEN Outcome(w, 0, fault.err, 0)
    ELSE IF fault.at = "commit" THEN Outcome(MarkAll(w, ids), 0, fault.err, 0)
    ELSE destroy(w, ids)

\* whether the failure happens in a call: the session call that fails is made
Fires(op, commit, fault) ==
    CASE op \in {"save"} -> fault.at = "add" \/ (fault.at = "commit" /\ commit)
      [] op \in {"update", "create"} -> fault.at \in {"add", "commit"}
      [] op = "delete" -> fault.at = "delete" \/ (fault.at = "commit" /\ commit)
      [] op = "destroy" -> fault.at \in {"delete", "commit"}

\* no operation was called yet
NoOp ==
    [op |-> "none", obj |-> 0, was |-> "none", args |-> {}, commits |-> 0,
     err |-> "", ret |-> 0]

\* the record variables before any instance exists
IdleRecords ==
    /\ attribute_filters = [protected |-> {}, accessible |-> {}, hidden |-> {}]
    /\ st = [o \in Objs |-> "none"]
    /\ mem = [o \in Objs |-> NoAttrs]
    /\ db = <<>>
    /\ marked = {}
    /\ pend = <<>>
    /\ nextId = 1
    /\ lastOp = NoOp

------------------------------------------------------------------------------
(* find_in_batches and find_each, flask_activerecord.py 382-424 *)

\* the default batch size, line 410
DefaultBatchSize == 1000

\* Query.offset(off).limit(lim).all() over the rows rs: at most lim rows after
\* the first off
OffsetLimit(rs, off, lim) ==
    SubSeq(rs, off + 1, Min(off + lim, Len(rs)))

\* a generator object that was never created
NoGen ==
    [kind |-> "none", pc |-> "none", start |-> None, batch_size |-> None,
     offset |-> 0, bs |-> 0, last |-> <<>>, batches |-> <<>>,
     pos |-> 0, objs |-> <<>>, queries |-> 0, err |-> ""]

\* calling a generator function runs none of its body: the arguments are bound
NewGen(kind, start, batch_size) ==
    [NoGen EXCEPT !.kind = kind, !.pc = "created",
                  !.start = start, !.batch_size = batch_size]

\* line 409: offset = batch_size and start or 0
InitialOffset(start, batch_size) == AndOr(batch_size, start, <<0>>)[1]

\* a slip: `batch_size or 1000`, the start argument never taken as the batch size
InitialBatchSizeIgnoringStart(start, batch_size) ==
    OrOr(batch_size, None, <<DefaultBatchSize>>)[1]

\* line 410: batch_size = batch_size or start or 1000
InitialBatchSize(start, batch_size) ==
    OrOr(batch_size, start, <<DefaultBatchSize>>)[1]

\* line 422: `raise StopIteration()` inside the generator body. Before PEP 479
\* it ends the generator; with PEP 479 in force it surfaces as RuntimeError.
Stop(g) ==
    IF pep479 THEN [g EXCEPT !.pc = "raised", !.err = "RuntimeError"]
    ELSE [g EXCEPT !.pc = "done"]

RECURSIVE LoopIter(_)

\* a slip: `<=` for `<`, so that a full batch ends the iteration
AfterYieldStopsOnFullBatch(g) ==
    IF Len(g.last) <= g.bs THEN Stop(g)
    ELSE LoopIter([g EXCEPT !.offset = @ + g.bs])

\* lines 421-424, resumed after the yield or reached with no rows
AfterYield(g) ==
    IF Len(g.last) < g.bs THEN Stop(g)
    ELSE LoopIter([g EXCEPT !.offset = @ + g.bs])

\* lines 418-420: one query, and the yield of a non-empty result
LoopIter(g) ==
    LET r  == OffsetLimit(rows, g.offset, g.bs)
        g1 == [g EXCEPT !.last = r, !.queries = @ + 1]
    IN  IF r # <<>>
        THEN [g1 EXCEPT !.pc = "yielded", !.batches = Append(@, r)]
        ELSE AfterYield(g1)

\* lines 409-416: the body up to the loop, run by the first next()
Prologue(g) ==
    LET off == InitialOffset(g.start, g.batch_size)
        bs  == InitialBatchSize(g.start, g.batch_size)
        g1  == [g EXCEPT !.offset = IF off < 0 THEN 0 ELSE off, !.bs = bs]
    IN  IF bs < 1
        THEN [g1 EXCEPT !.pc = "raised", !.err = "Exception"]
        ELSE LoopIter(g1)

\* next() on a find_in_batches generator: runs to the next yield or to the end
BatchesResume(g) ==
    IF g.pc = "created" THEN Prologue(g) ELSE AfterYield(g)

\* next() on a find_each generator, lines 391-393: the next object of the
\* current batch, or else of the next batch of the inner find_in_batches; the
\* inner generator's end ends the for loop and its error propagates
EachResume(g) ==
    IF g.pc = "yielded" /\ g.pos < Len(g.last)
    THEN [g EXCEPT !.pos = @ + 1, !.objs = Append(@, g.last[g.pos + 1])]
    ELSE LET i == BatchesResume(g)
         IN  IF i.pc = "yielded"
             THEN [i EXCEPT !.pos = 1, !.objs = Append(@, i.last[1])]
             ELSE i

Resume(g) ==
    IF g.kind = "each" THEN EachResume(g) ELSE BatchesResume(g)

Finished(g) == g.pc \in {"done", "raised"}

\* Model.find_in_batches(start, batch_size), lines 583-585
FindInBatches(start, batch_size) ==
    /\ gen.kind = "none" \/ Finished(gen)
    /\ gen' = NewGen("batches", start, batch_size)
    /\ UNCHANGED <<rows, pep479, helper, recordVars>>

\* Model.find_each(start, batch_size), lines 579-581
FindEach(start, batch_size) ==
    /\ gen.kind = "none" \/ Finished(gen)
    /\ gen' = NewGen("each", start, batch_size)
    /\ UNCHANGED <<rows, pep479, helper, recordVars>>

\* the consumer calls next() on the generator
GenNext ==
    /\ gen.kind # "none"
    /\ ~Finished(gen)
    /\ gen' = Resume(gen)
    /\ UNCHANGED <<rows, pep479, helper, recordVars>>

InitBatch ==
    /\ \E n \in 0..MaxRows : rows = [i \in 1..n |-> i]
    /\ pep479 \in BOOLEAN
    /\ gen = NoGen
    /\ helper = IdleHelper
    /\ IdleRecords

NextBatch ==
    \/ \E s \in OptInts, b \in OptInts : FindInBatches(s, b)
    \/ \E s \in OptInts, b \in OptInts : FindEach(s, b)
    \/ GenNext

SpecBatch == InitBatch /\ [][NextBatch]_vars

------------------------------------------------------------------------------
(* SpecWhere: calls of where() and find_by() *)

Val == 0..MaxVal

\* the sequences over S of length 0..n
SeqsUpTo(S, n) == UNION {[1..m -> S] : m \in 0..n}

Ascending(s) == \A i \in 1..Len(s) - 1 : s[i] < s[i + 1]

\* the values a keyword filter is given: ints, lists, tuples and sets
PyValues ==
    {PyInt(n) : n \in Val}
    \cup {[t |-> "list", v |-> s] : s \in SeqsUpTo(Val, MaxList)}
    \cup {[t |-> "tuple", v |-> s] : s \in SeqsUpTo(Val, MaxList + 1)}
    \cup {[t |-> "set", v |-> s] :
            s \in {q \in SeqsUpTo(Val, MaxVal + 1) : Ascending(q)}}

\* the keywords a call may give: columns, a relationship and a name that is
\* neither
FilterKeys == {"id", "title", "owner", "bogus"}

\* **filters: the keyword arguments of a call, which names no key, one key
\* or two keys; the loops of _where_clause treat one key at a time
FilterArgs ==
    UNION {[S -> PyValues] : S \in {{}} \cup {{j, k} : j, k \in FilterKeys}}

\* *criteria: expressions built by the caller
CriteriaArgs == {<<>>, <<Condition("done", "eq", <<PyInt(0)>>)>>}

\* the orders in which a set of keys may be iterated
Orders(S) ==
    {s \in [1..Cardinality(S) -> S] : \A i, j \in DOMAIN s : i # j => s[i] # s[j]}

\* Model.where(*criteria, **filters), lines 591-593
Where(criteria, kw, order) ==
    /\ helper.called = "none"
    /\ helper' = HelperWhere("where", criteria, kw, order)
    /\ UNCHANGED <<rows, pep479, gen, recordVars>>

\* Model.find_by(*criteria, **filters), lines 574-577
FindBy(criteria, kw, order) ==
    /\ helper.called = "none"
    /\ helper' = HelperFirst(HelperWhere("find_by", criteria, kw, order))
    /\ UNCHANGED <<rows, pep479, gen, recordVars>>

\* the caller drops the helper; the next call makes a new one (line 593)
DropHelper ==
    /\ helper.called # "none"
    /\ helper' = IdleHelper
    /\ UNCHANGED <<rows, pep479, gen, recordVars>>

InitWhere ==
    /\ rows = <<>>
    /\ pep479 = FALSE
    /\ gen = NoGen
    /\ helper = IdleHelper
    /\ IdleRecords

NextWhere ==
    \/ /\ helper.called = "none"
       /\ \E c \in CriteriaArgs, kw \in FilterArgs :
             \E o \in Orders(DOMAIN kw) : Where(c, kw, o)
    \/ /\ helper.called = "none"
       /\ \E c \in CriteriaArgs, kw \in FilterArgs :
             \E o \in Orders(DOMAIN kw) : FindBy(c, kw, o)
    \/ DropHelper

SpecWhere == InitWhere /\ [][NextWhere]_vars

------------------------------------------------------------------------------
(* Spec: the record operations over one session *)

\* The __attribute_filters__ a model class may declare: none, or id and
\* title protected as in the class docstring (lines 445-450), with any of
\* title and text accessible; title may be protected and accessible at once.
FilterConfigs ==
    {[protected |-> p, accessible |-> a, hidden |-> {}] :
        p \in {{}, {"id", "title"}}, a \in SUBSET {"title", "text"}}

\* **kwargs of assign and update: values for title and for text, and a name
\* that is no column
AssignArgs ==
    UNION {[S -> AttrVals] : S \in SUBSET {"title", "text"}}
    \cup {[k \in DOMAIN kw \cup {"bogus"} |-> IF k = "bogus" THEN "a" ELSE kw[k]] :
            kw \in UNION {[S -> AttrVals] : S \in SUBSET {"title", "text"}}}

\* the instances the program holds and may call methods on
Held == {o \in Objs : st[o] \in {"transient", "pending", "persistent"}}

\* the ids of the persistent instances
PersistentIds == {mem[o].id : o \in {p \in Objs : st[p] = "persistent"}}

\* **kwargs of assign and update in Spec: nothing, or a value for text
TextArgs == UNION {[S -> AttrVals] : S \in SUBSET {"text"}}

\* *ids of destroy: one or two ids of persistent instances
DestroyArgs == UNION {[1..n -> PersistentIds] : n \in 1..2}

\* the variables take the world of an outcome; lastOp records the call: the
\* method, the instance it was called on and the state that instance was in,
\* the names of its kwargs or the ids given, and what it issued and returned
Becomes(out, op, o, args) ==
    /\ st' = out.w.st
    /\ mem' = out.w.mem
    /\ db' = out.w.db
    /\ marked' = out.w.marked
    /\ pend' = out.w.pend
    /\ nextId' = out.w.nextId
    /\ lastOp' = [op |-> op, obj |-> o,
                  was |-> IF o \in Objs THEN st[o] ELSE "none",
                  args |-> args, commits |-> out.commits, err |-> out.err,
                  ret |-> out.ret]
    /\ UNCHANGED <<attribute_filters, rows, pep479, gen, helper>>

\* Todo(title, text)
Construct(title, text) ==
    /\ \E o \in Objs : st[o] = "none"
    /\ Becomes(construct(World, title, text), "construct", FreeObj(World), {})

\* Todo.create(title=..., text=...)
Create(title, text) ==
    /\ \E o \in Objs : st[o] = "none"
    /\ Becomes(create(World, title, text), "create", FreeObj(World), {})

\* instance.assign(**kwargs)
Assign(o, kwargs) ==
    /\ o \in Held
    /\ Becomes(assign(World, o, kwargs), "assign", o, DOMAIN kwargs)

\* instance.update(**kwargs)
Update(o, kwargs) ==
    /\ o \in Held
    /\ Becomes(update(World, o, kwargs), "update", o, DOMAIN kwargs)

\* instance.save(commit)
Save(o, commit) ==
    /\ o \in Held
    /\ Becomes(save(World, o, commit), "save", o, {})

\* instance.delete(commit)
Delete(o, commit) ==
    /\ o \in Held
    /\ Becomes(delete(World, o, commit), "delete", o, {})

\* Model.destroy(*ids)
Destroy(ids) ==
    Becomes(destroy(World, ids), "destroy", 0, {ids[i] : i \in DOMAIN ids})

\* Spec: up to MaxObjs instances of a model that declares no attribute
\* filters (line 460); the instances differ in their text
Init ==
    /\ rows = <<>>
    /\ pep479 = FALSE
    /\ gen = NoGen
    /\ helper = IdleHelper
    /\ IdleRecords

Next ==
    \/ \E x \in AttrVals : Construct("a", x)
    \/ \E x \in AttrVals : Create("a", x)
    \/ \E o \in Objs, kw \in TextArgs : Assign(o, kw)
    \/ \E o \in Objs, kw \in TextArgs : Update(o, kw)
    \/ \E o \in Objs, c \in BOOLEAN : Save(o, c)
    \/ \E o \in Objs, c \in BOOLEAN : Delete(o, c)
    \/ \E ids \in DestroyArgs : Destroy(ids)

Spec == Init /\ [][Next]_vars

\* SpecAssign: one instance of a model under each of the attribute filters
InitAssign ==
    /\ rows = <<>>
    /\ pep479 = FALSE
    /\ gen = NoGen
    /\ helper = IdleHelper
    /\ attribute_filters \in FilterConfigs
    /\ st = [o \in Objs |-> "none"]
    /\ mem = [o \in Objs |-> NoAttrs]
    /\ db = <<>>
    /\ marked = {}
    /\ pend = <<>>
    /\ nextId = 1
    /\ lastOp = NoOp

NextAssign ==
    \/ st[1] = "none" /\ \E t \in AttrVals, x \in AttrVals : Construct(t, x)
    \/ st[1] = "none" /\ \E t \in AttrVals, x \in AttrVals : Create(t, x)
    \/ \E kw \in AssignArgs : Assign(1, kw)
    \/ \E kw \in AssignArgs : Update(1, kw)
    \/ \E c \in BOOLEAN : Save(1, c)
    \/ \E c \in BOOLEAN : Delete(1, c)

SpecAssign == InitAssign /\ [][NextAssign]_vars

------------------------------------------------------------------------------
(* SpecQuery: queries over a table that create, delete and destroy change *)

\* the values a query gives for a column: an id, a list of two ids and a
\* 2-tuple of ids; a title or a text
QueryValues(k) ==
    IF k = "id"
    THEN {PyInt(n) : n \in 1..MaxObjs}
         \cup {[t |-> "list", v |-> <<1, 2>>], [t |-> "tuple", v |-> <<2, 1>>]}
    ELSE {PyStr(x) : x \in AttrVals}

\* **filters of a query: no key, one key or two keys of id, title and text
QueryArgs ==
    {kw \in UNION {[S -> UNION {QueryValues(k) : k \in {"id", "title", "text"}}] :
                    S \in {{}} \cup {{j, k} : j, k \in {"id", "title", "text"}}} :
        \A k \in DOMAIN kw : kw[k] \in QueryValues(k)}

\* the n of take(n)
TakeArgs == 0..MaxObjs + 1

\* a query method returns or raises; the table stays as it is
Answers(outcome) ==
    /\ helper = IdleHelper
    /\ helper' = outcome
    /\ UNCHANGED <<rows, pep479, gen, recordVars>>

\* Model.count()
Count == Answers(Returned("count", <<>>, 0, count(World)))

\* Model.where(**kw).count()
WhereCount(kw, order) == Answers(where_count(World, kw, order))

\* Model.where(**kw).exists()
WhereExists(kw, order) == Answers(where_exists(World, kw, order))

\* Model.find_by(**kw)
FindByFilters(kw, order) == Answers(find_by(World, kw, order))

\* Model.take(n, reverse)
Take(n, reverse) == Answers(take(World, n, reverse))

\* Model.first() and Model.last()
FirstOrLast(reverse) == Answers(first_or_last(World, reverse))

InitQuery ==
    /\ rows = <<>>
    /\ pep479 \in BOOLEAN
    /\ gen = NoGen
    /\ helper = IdleHelper
    /\ IdleRecords

NextQuery ==
    \/ helper = IdleHelper /\ \E t \in AttrVals, x \in AttrVals : Create(t, x)
    \/ helper = IdleHelper /\ \E o \in Objs : Delete(o, TRUE)
    \/ helper = IdleHelper /\ \E ids \in DestroyArgs : Destroy(ids)
    \/ Count
    \/ helper = IdleHelper
       /\ \E kw \in QueryArgs : \E o \in Orders(DOMAIN kw) : WhereCount(kw, o)
    \/ helper = IdleHelper
       /\ \E kw \in QueryArgs : \E o \in Orders(DOMAIN kw) : WhereExists(kw, o)
    \/ helper = IdleHelper
       /\ \E kw \in QueryArgs : \E o \in Orders(DOMAIN kw) : FindByFilters(kw, o)
    \/ \E n \in TakeArgs, r \in BOOLEAN : Take(n, r)
    \/ \E r \in BOOLEAN : FirstOrLast(r)
    \/ DropHelper

SpecQuery == InitQuery /\ [][NextQuery]_vars

------------------------------------------------------------------------------
(* SpecJson: calls of json_value *)

\* the values without elements
Atoms ==
    {PyVal("none", <<>>), PyVal("bool", <<"True">>), PyVal("int", <<"1">>),
     PyVal("float", <<"1.5">>), PyVal("str", <<"a">>),
     PyVal("datetime", <<"2015-01-02 03:04">>), PyVal("date", <<"2015-01-02">>),
     PyVal("time", <<"03:04">>), PyVal("other", <<"o">>),
     PyVal("has_attr", <<"o">>)}

\* the keys of a dict: a str and a date
DictKeys == {PyVal("str", <<"k">>), PyVal("date", <<"2015-01-02">>)}

\* the lists, tuples and sets of at most MaxElems elements of S, and the
\* dicts of at most one item with a value of S
Containers(S) ==
    {PyVal(t, q) : t \in {"list", "tuple", "set"}, q \in SeqsUpTo(S, MaxElems)}
    \cup {PyVal("dict", <<>>)}
    \cup {PyVal("dict", <<<<k, x>>>>) : k \in DictKeys, x \in S}

\* the objects whose to_dict() returns a dict of one item with a value of S
Models(S) ==
    {PyVal("model", <<PyVal("dict", <<<<PyVal("str", <<"k">>), x>>>>)>>) : x \in S}

\* the values json_value is called with: the atoms, the containers of atoms,
\* the objects with a to_dict, and a list, a dict or an object that holds one
\* of those
JsonArgs ==
    Atoms \cup Containers(Atoms) \cup Models(Atoms)
    \cup {PyVal("list", <<x>>) : x \in Containers(Atoms) \cup Models(Atoms)}
    \cup {PyVal("dict", <<<<PyVal("str", <<"k">>), x>>>>) :
            x \in Containers(Atoms) \cup Models(Atoms)}
    \cup Models(Containers(Atoms))

\* json_value(value)
JsonValue(value) ==
    /\ helper = IdleHelper
    /\ helper' = [called |-> "json_value", arg |-> value,
                  result |-> json_value(value)]
    /\ UNCHANGED <<rows, pep479, gen, recordVars>>

InitJson ==
    /\ rows = <<>>
    /\ pep479 \in BOOLEAN
    /\ gen = NoGen
    /\ helper = IdleHelper
    /\ IdleRecords

NextJson ==
    \/ \E value \in JsonArgs : JsonValue(value)
    \/ DropHelper

SpecJson == InitJson /\ [][NextJson]_vars

------------------------------------------------------------------------------
(* SpecDict: to_dict on the instances of a model with hidden attributes *)

\* the 'hidden' filters a model class may declare
HiddenConfigs ==
    {[protected |-> {}, accessible |-> {}, hidden |-> h] :
        h \in SUBSET {"id", "title", "owner"}}

\* the names a field may hold: columns, the relationship, an attribute of the
\* related model, and names that are neither
DictNames == {"id", "title", "owner", "owner.name", "bogus", "bogus.x"}

\* *fields of to_dict: none, one str of one or two names, or two str of one
\* name each
DictFields ==
    {<<>>}
    \cup {<<f>> : f \in [1..1 -> DictNames] \cup [1..2 -> DictNames]}
    \cup {<<f, g>> : f, g \in [1..1 -> DictNames]}

\* _exclude of to_dict
ExcludeArgs == SUBSET {"id", "title"}

\* instance.to_dict(*fields, _exclude=exclude), lines 509-516
ToDict(o, fields, exclude, order) ==
    /\ helper = IdleHelper
    /\ st[o] = "persistent"
    /\ helper' = [called |-> "to_dict", obj |-> o, fields |-> fields,
                  exclude |-> exclude,
                  out |-> model_to_dict(mem[o], Filter("hidden"), fields,
                                        exclude, order)]
    /\ UNCHANGED <<rows, pep479, gen, recordVars>>

InitDict ==
    /\ rows = <<>>
    /\ pep479 \in BOOLEAN
    /\ gen = NoGen
    /\ helper = IdleHelper
    /\ attribute_filters \in HiddenConfigs
    /\ st = [o \in Objs |-> "none"]
    /\ mem = [o \in Objs |-> NoAttrs]
    /\ db = <<>>
    /\ marked = {}
    /\ pend = <<>>
    /\ nextId = 1
    /\ lastOp = NoOp

NextDict ==
    \/ helper = IdleHelper /\ \E x \in AttrVals : Create("a", x)
    \/ helper = IdleHelper
       /\ \E o \in Objs, fields \in DictFields, exclude \in ExcludeArgs :
             \E order \in Orders(RelatedAttr(fields)) :
                 ToDict(o, fields, exclude, order)
    \/ DropHelper

SpecDict == InitDict /\ [][NextDict]_vars

------------------------------------------------------------------------------
(* SpecSelect: calls of select() *)

\* the names select() is given: columns, the relationship, an attribute of
\* the related model and a name that is neither
SelectNames == {"id", "title", "text", "owner", "owner.name", "bogus"}

\* Model.select(*fields), lines 343-351 and 587-589
Select(fields) ==
    /\ helper = IdleHelper
    /\ helper' = [called |-> "select", fields |-> fields, err |-> "",
                  _options |-> select_options(fields)]
    /\ UNCHANGED <<rows, pep479, gen, recordVars>>

InitSelect ==
    /\ rows = <<>>
    /\ pep479 \in BOOLEAN
    /\ gen = NoGen
    /\ helper = IdleHelper
    /\ IdleRecords

NextSelect ==
    \/ \E fields \in SeqsUpTo(SelectNames, MaxFields) : Select(fields)
    \/ DropHelper

SpecSelect == InitSelect /\ [][NextSelect]_vars

------------------------------------------------------------------------------
(* SpecFail: the record operations over a session whose calls may fail *)

\* instance.save(commit) with a failure in the session
SaveUnder(o, commit, fault) ==
    /\ o \in Held
    /\ Becomes(save_under(World, o, commit, fault), "save", o, {fault.at})

\* instance.update() with a failure in the session
UpdateUnder(o, fault) ==
    /\ o \in Held
    /\ Becomes(update_under(World, o, <<>>, fault), "update", o, {fault.at})

\* Model.create(title=..., text=...) with a failure in the session
CreateUnder(fault) ==
    /\ \E o \in Objs : st[o] = "none"
    /\ Becomes(create_under(World, "a", "a", fault), "create", FreeObj(World),
               {fault.at})

\* instance.delete(commit) with a failure in the session
DeleteUnder(o, commit, fault) ==
    /\ o \in Held
    /\ Becomes(delete_under(World, o, commit, fault), "delete", o, {fault.at})

\* Model.destroy(*ids) with a failure in the session
DestroyUnder(ids, fault) ==
    Becomes(destroy_under(World, ids, fault), "destroy", 0, {fault.at})

InitFail ==
    /\ rows = <<>>
    /\ pep479 \in BOOLEAN
    /\ gen = NoGen
    /\ helper = IdleHelper
    /\ IdleRecords

NextFail ==
    \/ Construct("a", "a")
    \/ \E o \in Objs, c \in BOOLEAN, f \in Faults \cup {NoFault} : SaveUnder(o, c, f)
    \/ \E o \in Objs, f \in Faults \cup {NoFault} : UpdateUnder(o, f)
    \/ \E f \in Faults \cup {NoFault} : CreateUnder(f)
    \/ \E o \in Objs, c \in BOOLEAN, f \in Faults \cup {NoFault} : DeleteUnder(o, c, f)
    \/ \E ids \in DestroyArgs, f \in Faults \cup {NoFault} : DestroyUnder(ids, f)

SpecFail == InitFail /\ [][NextFail]_vars

------------------------------------------------------------------------------
(* Properties of the batch iteration *)

RECURSIVE Flatten(_)
\* the concatenation of a sequence of batches
Flatten(bs) == IF bs = <<>> THEN <<>> ELSE Head(bs) \o Flatten(Tail(bs))

IsPrefix(s, t) == Len(s) <= Len(t) /\ SubSeq(t, 1, Len(s)) = s

RECURSIVE Drain(_)
\* the generator g after next() has been called on it until it ended
Drain(g) == IF Finished(g) THEN g ELSE Drain(Resume(g))

\* the rows of the query from offset max(start, 0) on
RowsFrom(start) ==
    SubSeq(rows, (IF start = None THEN 0 ELSE Max(start[1], 0)) + 1, Len(rows))

\* C1: with batch_size >= 1 and any start, the batches find_in_batches has
\* yielded so far concatenate to a prefix of the query's rows from offset
\* max(start, 0), and to all of them once the iteration has ended; every batch
\* but the last has exactly batch_size rows and the last has between 1 and
\* batch_size rows, so no batch is empty.
C1_BatchesPartitionRows ==
    (gen.kind # "none" /\ gen.batch_size # None /\ gen.batch_size[1] >= 1) =>
        LET b == gen.batch_size[1]
            n == Len(gen.batches)
        IN  /\ gen.err # "Exception"
            /\ IsPrefix(Flatten(gen.batches), RowsFrom(gen.start))
            /\ Finished(gen) => Flatten(gen.batches) = RowsFrom(gen.start)
            /\ \A i \in 1..n :
                  /\ Len(gen.batches[i]) \in 1..b
                  /\ i < n => Len(gen.batches[i]) = b

\* C1 witness: 3 rows in batches of 2 gave a batch of 2 and then a batch of 1
C1_Witness ==
    /\ gen.kind = "batches" /\ gen.batch_size = <<2>> /\ gen.start = <<0>>
    /\ Finished(gen)
    /\ rows = <<1, 2, 3>>
    /\ gen.batches = << <<1, 2>>, <<3>> >>

\* C2: a generator of find_in_batches or find_each called with batch_size <= 0,
\* once started, has raised an error and has yielded no batch and no record.
C2_NonPositiveBatchSizeRejected ==
    (gen.kind # "none" /\ gen.pc # "created"
        /\ gen.batch_size # None /\ gen.batch_size[1] <= 0) =>
        /\ gen.pc = "raised"
        /\ gen.batches = <<>>
        /\ gen.objs = <<>>

\* C4: find_in_batches(n) with n >= 1 yields the batches of
\* find_in_batches(0, n): what it has yielded so far is a prefix of them, and
\* all of them, with the same ending, once it has ended.
C4_StartAloneIsBatchSize ==
    (gen.kind # "none" /\ gen.batch_size = None
        /\ gen.start # None /\ gen.start[1] >= 1) =>
        LET ref == Drain(NewGen(gen.kind, <<0>>, gen.start))
        IN  /\ IsPrefix(gen.batches, ref.batches)
            /\ Finished(gen) =>
                  /\ gen.batches = ref.batches
                  /\ gen.pc = ref.pc /\ gen.err = ref.err

\* C4 witness: find_in_batches(2) over 3 rows has ended after 2 batches
C4_Witness ==
    /\ gen.kind = "batches" /\ gen.batch_size = None /\ gen.start = <<2>>
    /\ Finished(gen)
    /\ Len(rows) = 3
    /\ Len(gen.batches) = 2

\* C16: with batch_size >= 1, an iteration of find_each or find_in_batches
\* that has ended has ended normally, with no error, after the first query
\* that returned fewer than batch_size rows, having yielded each row from the
\* start offset once, in the order of the batches.
C16_IterationEndsNormally ==
    (gen.kind # "none" /\ gen.batch_size # None /\ gen.batch_size[1] >= 1
        /\ Finished(gen)) =>
        /\ gen.pc = "done"
        /\ gen.err = ""
        /\ Len(gen.last) < gen.batch_size[1]
        /\ gen.queries = Len(RowsFrom(gen.start)) \div gen.batch_size[1] + 1
        /\ Flatten(gen.batches) = RowsFrom(gen.start)
        /\ gen.kind = "each" => gen.objs = Flatten(gen.batches)

------------------------------------------------------------------------------
(* Properties of where() and find_by() *)

\* the values a column may hold in a row
ColVals == -1..MaxVal + 1

\* the column keys among the keyword filters of the call
ColumnKeys == DOMAIN helper.kw \cap Columns

\* the conditions of self._filters on attribute k
CondsFor(k) == SelectSeq(helper._filters, LAMBDA c : c.key = k)

Elems(s) == {s[i] : i \in 1..Len(s)}

C5_ListOrSetIsIn ==
    \A k \in ColumnKeys :
        (helper.err = "" /\ helper.kw[k].t \in {"list", "set"}
            /\ helper.kw[k].v # <<>>) =>
            /\ Len(CondsFor(k)) = 1
            /\ \A x \in ColVals :
                  Holds(CondsFor(k)[1], x) <=> x \in Elems(helper.kw[k].v)

\* C6: for a column filter that is a 2-tuple (a, b), where() builds one
\* condition on that column, BETWEEN min(a, b) AND max(a, b); a row satisfies
\* it if and only if min(a, b) <= column <= max(a, b), and the call with
\* (b, a) in its place builds a condition that the same rows satisfy.
C6_TupleIsOrderedBetween ==
    \A k \in ColumnKeys :
        (helper.err = "" /\ helper.kw[k].t = "tuple") =>
            LET a  == helper.kw[k].v[1]
                b  == helper.kw[k].v[2]
                lo == Min(a, b)
                hi == Max(a, b)
                swapped == [helper.kw EXCEPT ![k] = [t |-> "tuple", v |-> <<b, a>>]]
            IN  /\ Len(CondsFor(k)) = 1
                /\ CondsFor(k)[1] = Condition(k, "between", <<PyInt(lo), PyInt(hi)>>)
                /\ \A x \in ColVals :
                      Holds(CondsFor(k)[1], x) <=> (lo <= x /\ x <= hi)
                /\ \A o \in Orders(DOMAIN helper.kw) :
                      LET r == WhereClause(helper.criteria, swapped, o)
                      IN  /\ r.ok
                          /\ \A c \in Elems(r.conditions) : c.key = k =>
                                \A x \in ColVals :
                                    Holds(c, x) <=> Holds(CondsFor(k)[1], x)

\* C6 witness: where(title=(1, 0)) has built BETWEEN 0 AND 1
C6_Witness ==
    /\ helper.called = "where"
    /\ DOMAIN helper.kw = {"title"}
    /\ helper.kw["title"] = [t |-> "tuple", v |-> <<1, 0>>]
    /\ helper.filtersSet
    /\ helper._filters = <<Condition("title", "between", <<PyInt(0), PyInt(1)>>)>>


------------------------------------------------------------------------------
(* Properties of the record operations *)

\* whether the filters of the model let assign set column k from kwargs kw
Allowed(k, kw) ==
    /\ k \in DOMAIN kw
    /\ k \notin attribute_filters["protected"]
    /\ attribute_filters["accessible"] = {} \/ k \in attribute_filters["accessible"]

\* C7: assign(**kwargs) sets a column k of the instance to kwargs[k] exactly
\* when k is named in kwargs, is not protected and the accessible list is
\* empty or holds k; every other column keeps its value, a protected column
\* also when it is listed as accessible, and a name in kwargs that is no
\* column gives the instance no attribute.
C7_AssignSetsExactlyTheAllowed ==
    [][\A o \in Objs, kw \in AssignArgs :
          Assign(o, kw) =>
              /\ DOMAIN mem'[o] = Columns
              /\ \A k \in Columns :
                    mem'[o][k] = IF Allowed(k, kw) THEN kw[k] ELSE mem[o][k]]_vars

\* an assign of title, text and a name that is no column, on a model whose
\* title is both protected and accessible: text took its value, title did not
C7_Witness ==
    /\ lastOp.op = "assign"
    /\ lastOp.args = {"title", "text", "bogus"}
    /\ attribute_filters["protected"] = {"id", "title"}
    /\ attribute_filters["accessible"] = {"title", "text"}
    /\ db # <<>>
    /\ \E pk \in DOMAIN db :
          /\ mem[lastOp.obj].id = pk
          /\ mem[lastOp.obj].text # db[pk].text
          /\ mem[lastOp.obj].title = db[pk].title

\* C8: assign neither adds the instance to the session nor commits: the
\* table, the state of every instance, the pending inserts and deletions stay
\* as they were; the columns not named in kwargs and the other instances keep
\* their values, and assign returns the instance it was called on.
C8_AssignIsInMemoryOnly ==
    [][\A o \in {lastOp'.obj} \cap Objs, kw \in TextArgs :
          Assign(o, kw) =>
              /\ db' = db
              /\ st' = st
              /\ pend' = pend
              /\ marked' = marked
              /\ nextId' = nextId
              /\ lastOp'.commits = 0
              /\ lastOp'.ret = o
              /\ \A k \in Columns \ DOMAIN kw : mem'[o][k] = mem[o][k]
              /\ \A p \in Objs \ {o} : mem'[p] = mem[p]]_vars

\* an assign of text on a persistent instance while another instance is
\* pending: the row still has the old text and nothing was inserted
C8_Witness ==
    /\ lastOp.op = "assign"
    /\ lastOp.args = {"text"}
    /\ st[lastOp.obj] = "persistent"
    /\ mem[lastOp.obj].id \in DOMAIN db
    /\ db[mem[lastOp.obj].id].text # mem[lastOp.obj].text
    /\ pend # <<>>

\* C9: when update(**kwargs) returns, the instance is in the session and
\* committed (one commit), and its row has the value of kwargs for every
\* column assign sets; a column that kwargs names and assign filters out has
\* in the row the value it had in the row before.
C9_UpdateIsCommittedAssign ==
    [][\A o \in Objs, kw \in AssignArgs :
          Update(o, kw) =>
              LET pk == mem'[o].id
              IN  /\ st'[o] = "persistent"
                  /\ lastOp'.commits = 1
                  /\ lastOp'.ret = o
                  /\ marked' = {}
                  /\ pend' = <<>>
                  /\ pk \in DOMAIN db'
                  /\ st[o] = "persistent" => pk = mem[o].id
                  /\ \A k \in Columns \ {"id"} :
                        /\ Allowed(k, kw) => db'[pk][k] = kw[k]
                        /\ k \in DOMAIN kw /\ ~Allowed(k, kw) /\ st[o] = "persistent"
                              => db'[pk][k] = db[pk][k]
                        /\ ~Allowed(k, kw) => db'[pk][k] = mem[o][k]]_vars

\* an update of title and text on a persistent instance of a model whose
\* title is protected: the row has the new text
C9_Witness ==
    /\ lastOp.op = "update"
    /\ lastOp.was = "persistent"
    /\ lastOp.args = {"title", "text"}
    /\ "title" \in attribute_filters["protected"]
    /\ "text" \in attribute_filters["accessible"]
    /\ mem[lastOp.obj].id \in DOMAIN db
    /\ db[mem[lastOp.obj].id].text = "b"
    /\ db[mem[lastOp.obj].id].title = "b"

\* the table is what the session showed before the call without the rows
\* whose primary keys are in ids, and count() is less by their number
Removes(ids) ==
    /\ ids \subseteq DOMAIN Visible(World)
    /\ db' = [pk \in DOMAIN Visible(World) \ ids |-> Visible(World)[pk]]
    /\ Visible(World') = db'
    /\ count(World') = count(World) - Cardinality(ids)

\* C10: instance.delete() of an instance whose record exists removes that
\* record and no other; Model.destroy(*ids) with the ids of existing records
\* removes the records with those ids and leaves every other record as it
\* was, with one commit; count() decreases by the number of distinct records
\* removed.
C10_DeleteAndDestroyRemoveExactly ==
    [][/\ \A o \in {lastOp'.obj} \cap Objs :
             Delete(o, TRUE) /\ st[o] = "persistent" /\ o \notin marked
                 => Removes({mem[o].id}) /\ lastOp'.commits = 1
       /\ \A ids \in {a \in DestroyArgs : lastOp'.op = "destroy"} :
             Destroy(ids) /\ (\A i \in DOMAIN ids : ids[i] \in DOMAIN Visible(World))
                 => /\ Removes({ids[i] : i \in DOMAIN ids})
                    /\ lastOp'.commits = 1]_vars

\* a destroy of one id while another record exists: that record is the table
C10_Witness ==
    /\ lastOp.op = "destroy"
    /\ Cardinality(lastOp.args) = 1
    /\ Cardinality(DOMAIN db) = 1
    /\ DOMAIN db \cap lastOp.args = {}
    /\ \E o \in Objs : st[o] = "persistent" /\ mem[o].id \in DOMAIN db
    /\ \E o \in Objs : st[o] = "detached"


------------------------------------------------------------------------------
(* Properties of the queries *)

\* whether a row satisfies the filters of a query: a simple value is the
\* value of the column, a list holds it, a 2-tuple bounds it
Satisfies(row, kw) ==
    \A k \in DOMAIN kw :
        CASE kw[k].t \in SimpleTypes -> row[k] = kw[k].v[1]
          [] kw[k].t = "list" -> \E i \in DOMAIN kw[k].v : row[k] = kw[k].v[i]
          [] kw[k].t = "tuple" ->
                /\ SeqMin(kw[k].v) <= row[k]
                /\ row[k] <= SeqMax(kw[k].v)

\* the primary keys of the persisted records that satisfy the filters
Satisfying(kw) == {pk \in DOMAIN db : Satisfies(db[pk], kw)}

\* the least and the greatest of a non-empty set of primary keys
Least(S) == CHOOSE x \in S : \A y \in S : x <= y
Greatest(S) == CHOOSE x \in S : \A y \in S : x >= y

\* C11: find_by(**filters) returns the record with the smallest id among the
\* records that satisfy all the conditions together, and None when no record
\* does.
C11_FindByReturnsFirstMatch ==
    helper.called = "find_by" =>
        /\ helper.err = ""
        /\ helper.result = IF Satisfying(helper.kw) = {} THEN None
                           ELSE <<db[Least(Satisfying(helper.kw))]>>

\* C12: after any sequence of create, delete and destroy, count() is the
\* number of persisted records, where(**filters).count() the number of those
\* that satisfy the filters, and exists() tells whether that number is not 0.
C12_CountIsNumberOfRecords ==
    /\ helper.called = "count" =>
          helper.err = "" /\ helper.result = Cardinality(DOMAIN db)
    /\ helper.called = "where_count" =>
          helper.err = "" /\ helper.result = Cardinality(Satisfying(helper.kw))
    /\ helper.called = "exists" =>
          helper.err = "" /\ helper.result = (Satisfying(helper.kw) # {})

\* a where().count() of two conditions after a create, a delete and a
\* create: the one record left satisfies both and the count is 1
C12_Witness ==
    /\ helper.called = "where_count"
    /\ DOMAIN helper.kw = {"title", "text"}
    /\ helper.result = 1
    /\ Cardinality(DOMAIN db) = 1
    /\ lastOp.op = "create"
    /\ \E o \in Objs : st[o] = "detached"

\* the first n elements of a sequence, all of them when it has fewer
FirstN(q, n) == SubSeq(q, 1, Min(n, Len(q)))

\* C13: whenever take(n), n >= 0, returns, it returns the min(n, total)
\* records with the smallest ids, ascending, and with reverse=True those with
\* the largest ids, descending; first() and last() return the record with the
\* smallest and the largest id, None when the table is empty.
C13_TakeReturnsAtMostN ==
    /\ helper.called = "take" /\ helper.err = "" =>
          helper.result =
              [i \in 1..Min(helper.n, Cardinality(DOMAIN db)) |->
                  db[Ascend(DOMAIN db)[i]]]
    /\ helper.called = "take_reverse" /\ helper.err = "" =>
          helper.result =
              [i \in 1..Min(helper.n, Cardinality(DOMAIN db)) |->
                  db[Reverse(Ascend(DOMAIN db))[i]]]
    /\ helper.called = "first" /\ helper.err = "" =>
          helper.result = IF db = <<>> THEN None ELSE <<db[Least(DOMAIN db)]>>
    /\ helper.called = "last" /\ helper.err = "" =>
          helper.result = IF db = <<>> THEN None ELSE <<db[Greatest(DOMAIN db)]>>


------------------------------------------------------------------------------
(* Properties of json_value and to_dict *)

RECURSIVE JsonSerializable(_)
\* whether json.dumps accepts a value: None, a bool, an int, a float, a str,
\* a list of such values, or a dict of such values whose keys are simple
JsonSerializable(value) ==
    \/ value.t \in {"none", "bool", "int", "float", "str"}
    \/ /\ value.t = "list"
       /\ \A i \in DOMAIN value.v : JsonSerializable(value.v[i])
    \/ /\ value.t = "dict"
       /\ \A i \in DOMAIN value.v :
             /\ value.v[i][1].t \in {"none", "bool", "int", "float", "str"}
             /\ JsonSerializable(value.v[i][2])

\* C17: the result of json_value consists only of None, bool, int, float,
\* str, lists and dicts, for every input: a simple value is returned as it
\* is, a list, tuple or set becomes the list of its converted elements, a
\* dict a dict with converted values, a date, time or datetime its ISO
\* string, an object with a callable to_dict the conversion of to_dict(), and
\* anything else str(value); json_value of the result is the result.
C17_JsonValueIsSerializable ==
    helper.called = "json_value" =>
        LET value == helper.arg
            result == helper.result
        IN  /\ JsonSerializable(result)
            /\ json_value(result) = result
            /\ value.t \in {"none", "bool", "int", "float", "str"} => result = value
            /\ value.t \in {"list", "tuple", "set"} =>
                  /\ result.t = "list"
                  /\ Len(result.v) = Len(value.v)
                  /\ \A i \in DOMAIN value.v : result.v[i] = json_value(value.v[i])
            /\ value.t = "dict" =>
                  /\ result.t = "dict"
                  /\ Len(result.v) = Len(value.v)
                  /\ \A i \in DOMAIN value.v :
                        /\ result.v[i][1] = value.v[i][1]
                        /\ result.v[i][2] = json_value(value.v[i][2])
            /\ value.t \in {"datetime", "date", "time"} =>
                  result = PyVal("str", <<IsoFormat(value)>>)
            /\ value.t = "model" => result = json_value(value.v[1])
            /\ value.t \in {"other", "has_attr"} =>
                  result = PyVal("str", <<Str(value)>>)


\* C14: to_dict() with no fields on a persisted instance returns a dict whose
\* keys are the columns of the model that are not hidden, each with
\* json_value of the attribute of the instance.
C14_ToDictShowsTheColumns ==
    helper.called = "to_dict" /\ helper.fields = <<>> /\ helper.exclude = {} =>
        /\ helper.out.ok
        /\ DOMAIN helper.out.dict = Columns \ attribute_filters["hidden"]
        /\ \A k \in DOMAIN helper.out.dict :
              helper.out.dict[k] = json_value(Attribute(mem[helper.obj], k))

\* to_dict() on an instance of a model that hides its title: four keys, the
\* date as its ISO string
C14_Witness ==
    /\ helper.called = "to_dict"
    /\ helper.fields = <<>>
    /\ helper.exclude = {}
    /\ attribute_filters["hidden"] = {"title"}
    /\ DOMAIN helper.out.dict = {"id", "text", "done", "pub_date"}
    /\ helper.out.dict["pub_date"].t = "str"
    /\ helper.out.dict["id"] = PyInt(mem[helper.obj].id)

\* C19: for every choice of fields and _exclude, the dict to_dict returns has
\* no key that the 'hidden' filter lists, and, when it is not empty, it has
\* every primary-key column that is not hidden.
C19_HiddenNeverShown ==
    helper.called = "to_dict" /\ helper.out.ok =>
        /\ DOMAIN helper.out.dict \cap attribute_filters["hidden"] = {}
        /\ helper.out.dict # <<>> =>
              PrimaryKeys \ attribute_filters["hidden"] \subseteq DOMAIN helper.out.dict


------------------------------------------------------------------------------
(* Properties of select() *)

\* C18: select(*fields) with at least one field defers exactly the columns
\* that are neither requested nor primary keys, so no primary key, and loads
\* eagerly exactly the requested relationships; select() defers no column and
\* loads no relationship; a requested name that is neither a column nor a
\* relationship gives no option and no error.
C18_SelectDefersTheUnrequested ==
    helper.called = "select" =>
        LET requested == {helper.fields[i] : i \in DOMAIN helper.fields}
        IN  /\ helper.err = ""
            /\ helper._options.defer \subseteq Columns
            /\ helper._options.eagerload \subseteq Relations
            /\ helper.fields # <<>> =>
                  /\ helper._options.defer = Columns \ (requested \cup PrimaryKeys)
                  /\ helper._options.defer \cap PrimaryKeys = {}
                  /\ helper._options.eagerload = requested \cap Relations
            /\ helper.fields = <<>> =>
                  /\ helper._options.defer = {}
                  /\ helper._options.eagerload = {}

\* select('title', 'owner', 'owner.name'): id and title are loaded, the
\* three other columns deferred and the relationship loaded eagerly
C18_Witness ==
    /\ helper.called = "select"
    /\ helper.fields = <<"title", "owner", "owner.name">>
    /\ helper._options.defer = {"text", "done", "pub_date"}
    /\ helper._options.eagerload = {"owner"}

------------------------------------------------------------------------------
(* Properties of the failures of the session *)

\* the call raised the error of the failure and changed no row
Propagates(fault) ==
    /\ lastOp'.err = fault.err
    /\ lastOp'.ret = 0
    /\ lastOp'.commits = 0
    /\ db' = db

\* C15: when add, delete or commit of the session raises inside save,
\* update, create, delete or destroy, the call raises that same error: it
\* returns nothing and no commit took place.
C15_SessionErrorsPropagate ==
    [][\A f \in {g \in Faults : g.at \in lastOp'.args} :
          /\ \A o \in {lastOp'.obj} \cap Objs, c \in BOOLEAN :
                /\ SaveUnder(o, c, f) /\ Fires("save", c, f) => Propagates(f)
                /\ UpdateUnder(o, f) /\ Fires("update", TRUE, f) => Propagates(f)
                /\ DeleteUnder(o, c, f) /\ st[o] = "persistent"
                      /\ Fires("delete", c, f) => Propagates(f)
          /\ CreateUnder(f) /\ Fires("create", TRUE, f) => Propagates(f)
          /\ \A ids \in {a \in DestroyArgs : lastOp'.op = "destroy"} :
                DestroyUnder(ids, f) /\ Fires("destroy", TRUE, f) => Propagates(f)]_vars

\* a save whose commit failed: the error is the one of the commit, and the
\* instance is pending, not inserted
C15_Witness ==
    /\ lastOp.op = "save"
    /\ lastOp.args = {"commit"}
    /\ lastOp.was = "transient"
    /\ lastOp.err = "IntegrityError"
    /\ st[lastOp.obj] = "pending"
    /\ db = <<>>

====
